---- MODULE Spec2Model ----
(***************************************************************************)
(* Model of src/agent.py, class DomainFlipper: the pipeline                *)
(*   find_trending_keywords -> generate_domain_ideas -> evaluate_domains   *)
(*   -> create_flipping_strategy                                           *)
(* and the scoring functions it is made of.                                *)
(*                                                                         *)
(* Representation.                                                         *)
(*  - A Python str is a sequence of one-character strings, so that         *)
(*    endswith, split, the substring test `in`, lower, replace, isalpha    *)
(*    and f-string concatenation are computed character by character.      *)
(*  - profit_potential is a Python float.  It is held here in hundredths   *)
(*    of a unit: 15 * min(v / 100, 50) - 15 is (15 * min(v, 5000) - 1500)  *)
(*    hundredths.  Every estimated value is a multiple of 50, so v / 100   *)
(*    is a multiple of 1/2 and the float arithmetic of the code is exact   *)
(*    on these values.  The threshold `> 500` is `> 50000` hundredths.     *)
(*  - roi_percentage is the quotient of two such numbers and is held as    *)
(*    the fraction [num, den] the code divides (den = 0 is the fault).     *)
(***************************************************************************)
EXTENDS Integers, Sequences, FiniteSets, TLC

VARIABLES
  pc,                 \* where the run is
  requests,           \* the queries sent by search_repos, in order
  responses,          \* per request: the status received and the list search_repos returned
  trends,             \* analyze_github_trends: the local list `trends`
  github_trends,      \* analyze_github_trends' return value
  trending_keywords,  \* find_trending_keywords' return value
  domain_ideas,       \* generate_domain_ideas' return value
  evaluated,          \* evaluate_domains: the domains the loop built an evaluation for
  valuable_domains,   \* evaluate_domains' return value
  strategy,           \* create_flipping_strategy's return value, or NoStrategy
  fault,              \* the uncaught exception that ended the run, or NoFault
  domain,             \* the argument of estimate_domain_value / calculate_profit_potential
  other,              \* a second argument, for comparisons between two domains
  estimated_value,    \* domain string -> estimate_domain_value's result
  profit_potential,   \* domain string -> calculate_profit_potential's result (hundredths)
  trend,              \* the argument of calculate_trend_potential / estimate_commercial_value
  trend_record        \* the record find_trending_keywords builds for `trend`

vars == <<pc, requests, responses, trends, github_trends, trending_keywords, domain_ideas,
          evaluated, valuable_domains, strategy, fault, domain, other,
          estimated_value, profit_potential, trend, trend_record>>

NoStrategy == [none |-> "strategy"]
NoFault == "none"
NoValue == [none |-> "value"]

\* estimated_value and profit_potential before any call: the function of no domain
NoValues == <<>>

(***************************************************************************)
(* Python str and list operations                                          *)
(***************************************************************************)

Min(a, b) == IF a <= b THEN a ELSE b

Max(a, b) == IF a >= b THEN a ELSE b

\* s[:n] for n >= 0
Take(s, n) == SubSeq(s, 1, Min(n, Len(s)))

\* s[n:] for n >= 0
Drop(s, n) == SubSeq(s, n + 1, Len(s))

\* s.endswith(suffix)
EndsWith(s, suffix) ==
  /\ Len(suffix) <= Len(s)
  /\ SubSeq(s, Len(s) - Len(suffix) + 1, Len(s)) = suffix

\* sub in s  (substring test)
Contains(s, sub) ==
  \E i \in 0..(Len(s) - Len(sub)) : SubSeq(s, i + 1, i + Len(sub)) = sub

\* s.split('.')[0]: the text before the first dot, all of s when it has none
SplitDotFirst(s) ==
  LET dots == {i \in 1..Len(s) : s[i] = "."}
  IN  IF dots = {} THEN s
      ELSE SubSeq(s, 1, (CHOOSE i \in dots : \A j \in dots : i <= j) - 1)

\* any(k in s for k in terms)
AnyIn(terms, s) == \E i \in 1..Len(terms) : Contains(s, terms[i])

RECURSIVE Flatten(_)
\* the concatenation of a list of lists (successive list.extend calls)
Flatten(ss) == IF ss = <<>> THEN <<>> ELSE Head(ss) \o Flatten(Tail(ss))

RECURSIVE InsertKeyed(_, _)
\* x = <<key, item>> put into a list that is descending by key, behind every
\* entry whose key is at least its own
InsertKeyed(sorted, x) ==
  IF sorted = <<>> THEN <<x>>
  ELSE IF Head(sorted)[1] >= x[1] THEN <<Head(sorted)>> \o InsertKeyed(Tail(sorted), x)
  ELSE <<x>> \o sorted

RECURSIVE SortKeyed(_, _)
SortKeyed(done, rest) ==
  IF rest = <<>> THEN done ELSE SortKeyed(InsertKeyed(done, Head(rest)), Tail(rest))

\* sorted(s, key=..., reverse=True) for the list of <<key(x), x>>, x in s:
\* descending by key, equal keys keep their order (the sort is stable, also with
\* reverse=True)
SortedDesc(keyed) ==
  LET sorted == SortKeyed(<<>>, keyed)
  IN  [i \in 1..Len(sorted) |-> sorted[i][2]]

(***************************************************************************)
(* Valuator: estimate_domain_value, calculate_profit_potential,            *)
(* estimate_sell_time, create_domain_marketing                             *)
(***************************************************************************)

dot_com == <<".", "c", "o", "m">>

dot_ai == <<".", "a", "i">>

dot_io == <<".", "i", "o">>

valuable_keywords ==
  << <<"a", "i">>, <<"a", "p", "p">>, <<"t", "o", "o", "l">>,
     <<"p", "r", "o">>, <<"g", "e", "t">>, <<"u", "s", "e">> >>

RECURSIVE keyword_value(_, _, _)
\* the loop `for keyword in valuable_keywords: if keyword in domain_name: base_value += 200`
\* from its i-th iteration on
keyword_value(base_value, domain_name, i) ==
  IF i > Len(valuable_keywords) THEN base_value
  ELSE keyword_value(
         IF Contains(domain_name, valuable_keywords[i]) THEN base_value + 200 ELSE base_value,
         domain_name, i + 1)

\* Mutant: the TLD tests are independent `if`s and the keyword loop stops at its first hit.
estimate_domain_value_first_hit(d) ==
  LET tld == (IF EndsWith(d, dot_com) THEN 200 ELSE 0)
             + (IF EndsWith(d, dot_ai) THEN 150 ELSE 0)
             + (IF EndsWith(d, dot_io) THEN 100 ELSE 0)
      domain_name == SplitDotFirst(d)
      len == IF Len(domain_name) <= 6 THEN 300
             ELSE IF Len(domain_name) <= 10 THEN 100 ELSE 0
      kw == IF AnyIn(valuable_keywords, domain_name) THEN 200 ELSE 0
  IN  100 + tld + len + kw

estimate_domain_value(d) ==
  LET base0 == 100
      base1 == IF EndsWith(d, dot_com) THEN base0 + 200
               ELSE IF EndsWith(d, dot_ai) THEN base0 + 150
               ELSE IF EndsWith(d, dot_io) THEN base0 + 100
               ELSE base0
      domain_name == SplitDotFirst(d)
      base2 == IF Len(domain_name) <= 6 THEN base1 + 300
               ELSE IF Len(domain_name) <= 10 THEN base1 + 100
               ELSE base1
  IN  keyword_value(base2, domain_name, 1)

registration_cost == 15

\* Mutant: `//` in place of `/` (the quotient is floored before it is multiplied).
calculate_profit_potential_floor_div(d) ==
  LET value == estimate_domain_value(d)
      profit_multiplier == Min((value \div 100) * 100, 50 * 100)
      profit == registration_cost * profit_multiplier - registration_cost * 100
  IN  Max(profit, 0)

\* in hundredths: profit_multiplier is min(estimated_value / 100, 50) times 100
calculate_profit_potential(d) ==
  LET value == estimate_domain_value(d)
      profit_multiplier == Min(value, 50 * 100)
      profit == registration_cost * profit_multiplier - registration_cost * 100
  IN  Max(profit, 0)

estimate_sell_time(d) ==
  LET value == estimate_domain_value(d)
  IN  IF value > 500 THEN "1-3 months"
      ELSE IF value > 200 THEN "3-6 months"
      ELSE "6-12 months"

create_domain_marketing(d) ==
  << "List on domain marketplaces (Sedo, Flippa)",
     "Direct outreach to relevant businesses",
     "Social media promotion",
     "Domain auction participation" >>

(***************************************************************************)
(* TrendScorer: calculate_trend_potential, estimate_commercial_value and   *)
(* the record find_trending_keywords builds for each trend                 *)
(***************************************************************************)

tech_terms ==
  << <<"a", "i">>,
     <<"a", "u", "t", "o", "m", "a", "t", "i", "o", "n">>,
     <<"s", "a", "a", "s">>,
     <<"a", "p", "p">> >>

business_terms ==
  << <<"i", "n", "c", "o", "m", "e">>,
     <<"m", "o", "n", "e", "y">>,
     <<"p", "r", "o", "f", "i", "t">>,
     <<"b", "u", "s", "i", "n", "e", "s", "s">> >>

\* Mutant: the final min(score, 100) is left out.
calculate_trend_potential_uncapped(t) ==
  LET score0 == 50
      score1 == IF AnyIn(tech_terms, t) THEN score0 + 30 ELSE score0
      score2 == IF AnyIn(business_terms, t) THEN score1 + 25 ELSE score1
      score3 == IF Len(t) <= 8 THEN score2 + 20 ELSE score2
  IN  score3

calculate_trend_potential(t) ==
  LET score0 == 50
      score1 == IF AnyIn(tech_terms, t) THEN score0 + 30 ELSE score0
      score2 == IF AnyIn(business_terms, t) THEN score1 + 25 ELSE score1
      score3 == IF Len(t) <= 8 THEN score2 + 20 ELSE score2
  IN  Min(score3, 100)

\* the dict `values` of estimate_commercial_value
values == [high |-> "$1000+", medium |-> "$500-1000", low |-> "$100-500"]

high_value_terms ==
  << <<"a", "i">>,
     <<"c", "r", "y", "p", "t", "o">>,
     <<"s", "a", "a", "s">>,
     <<"a", "p", "p">> >>

medium_value_terms ==
  << <<"t", "o", "o", "l">>,
     <<"p", "r", "o">>,
     <<"b", "u", "s", "i", "n", "e", "s", "s">> >>

estimate_commercial_value(t) ==
  IF AnyIn(high_value_terms, t) THEN values.high
  ELSE IF AnyIn(medium_value_terms, t) THEN values.medium
  ELSE values.low

\* the dict appended to scored_trends for one trend
TrendRecord(t) ==
  [keyword |-> t,
   score |-> calculate_trend_potential(t),
   commercial_value |-> estimate_commercial_value(t)]

(***************************************************************************)
(* KeywordExtractor: extract_keywords                                      *)
(***************************************************************************)

UpperCase ==
  <<"A", "B", "C", "D", "E", "F", "G", "H", "I", "J", "K", "L", "M",
    "N", "O", "P", "Q", "R", "S", "T", "U", "V", "W", "X", "Y", "Z">>

LowerCase ==
  <<"a", "b", "c", "d", "e", "f", "g", "h", "i", "j", "k", "l", "m",
    "n", "o", "p", "q", "r", "s", "t", "u", "v", "w", "x", "y", "z">>

\* s.lower()
Lower(s) ==
  [i \in 1..Len(s) |->
     IF \E k \in 1..26 : UpperCase[k] = s[i]
     THEN LowerCase[CHOOSE k \in 1..26 : UpperCase[k] = s[i]]
     ELSE s[i]]

\* s.replace('-', ' ')
ReplaceHyphens(s) == [i \in 1..Len(s) |-> IF s[i] = "-" THEN " " ELSE s[i]]

RECURSIVE SplitFrom(_, _, _)
\* s.split(): the maximal runs of non-blank characters; `word` is the run being read
SplitFrom(s, word, words) ==
  IF s = <<>> THEN (IF word = <<>> THEN words ELSE Append(words, word))
  ELSE IF Head(s) = " "
       THEN SplitFrom(Tail(s), <<>>, IF word = <<>> THEN words ELSE Append(words, word))
       ELSE SplitFrom(Tail(s), Append(word, Head(s)), words)

Split(s) == SplitFrom(s, <<>>, <<>>)

\* word.isalpha(), for the ASCII letters
IsAlpha(word) ==
  /\ word # <<>>
  /\ \A i \in 1..Len(word) : \E k \in 1..26 : word[i] \in {UpperCase[k], LowerCase[k]}

\* a key that is missing from the repo dict, and the JSON null
KeyAbsent == [absent |-> "key"]

JsonNull == [json |-> "null"]

\* f"{repo['name']} {repo.get('description', '')}"
RepoText(repo) ==
  repo.name \o <<" ">> \o
    (IF repo.description = KeyAbsent THEN <<>>
     ELSE IF repo.description = JsonNull THEN <<"N", "o", "n", "e">>
     ELSE repo.description)

extract_keywords(repo) ==
  LET words == Split(ReplaceHyphens(Lower(RepoText(repo))))
      valuable_words == SelectSeq(words, LAMBDA word : Len(word) > 3 /\ IsAlpha(word))
  IN  Take(valuable_words, 5)

(***************************************************************************)
(* TrendSource: search_repos, analyze_github_trends, find_trending_keywords *)
(***************************************************************************)

search_queries ==
  << "created:>2024-01-01 stars:>100",
     "ai automation created:>2024-01-01",
     "saas template created:>2024-01-01" >>

\* Mutant: the status is not looked at.
search_repos_any_status(response) ==
  IF "items" \in DOMAIN response.json THEN response.json.items ELSE <<>>

\* what search_repos returns for the response requests.get gave it
search_repos(response) ==
  IF response.status_code = 200
  THEN (IF "items" \in DOMAIN response.json THEN response.json.items ELSE <<>>)
  ELSE <<>>

\* `for repo in repos[:10]: trends.extend(self.extract_keywords(repo))`
repo_keywords(repos) ==
  LET first == Take(repos, 10)
  IN  Flatten([i \in 1..Len(first) |-> extract_keywords(first[i])])

\* the values of a list, as set() collects them
SetOf(s) == {s[i] : i \in 1..Len(s)}

\* list(set(trends)): the members in some order, each once; the order is the set's
\* iteration order, which the language does not fix
ListsOfSet(S) ==
  {f \in [1..Cardinality(S) -> S] : \A i, j \in 1..Cardinality(S) : f[i] = f[j] => i = j}

tech_trends ==
  << <<"a", "i", "-", "a", "g", "e", "n", "t", "s">>,
     <<"a", "u", "t", "o", "m", "a", "t", "i", "o", "n">>,
     <<"s", "e", "r", "v", "e", "r", "l", "e", "s", "s">>,
     <<"n", "o", "c", "o", "d", "e">>,
     <<"d", "e", "f", "i">>,
     <<"m", "e", "t", "a", "v", "e", "r", "s", "e">>,
     <<"n", "f", "t">>,
     <<"c", "r", "y", "p", "t", "o">>,
     <<"b", "l", "o", "c", "k", "c", "h", "a", "i", "n">>,
     <<"w", "e", "b", "3">>,
     <<"s", "a", "a", "s">>,
     <<"p", "r", "o", "d", "u", "c", "t", "i", "v", "i", "t", "y">>,
     <<"r", "e", "m", "o", "t", "e", "-", "w", "o", "r", "k">>,
     <<"s", "u", "s", "t", "a", "i", "n", "a", "b", "i", "l", "i", "t", "y">> >>

business_trends ==
  << <<"d", "i", "g", "i", "t", "a", "l", "-", "n", "o", "m", "a", "d">>,
     <<"s", "i", "d", "e", "-", "h", "u", "s", "t", "l", "e">>,
     <<"p", "a", "s", "s", "i", "v", "e", "-", "i", "n", "c", "o", "m", "e">>,
     <<"e", "c", "o", "m", "m", "e", "r", "c", "e">>,
     <<"d", "r", "o", "p", "s", "h", "i", "p", "p", "i", "n", "g">>,
     <<"a", "f", "f", "i", "l", "i", "a", "t", "e">>,
     <<"i", "n", "f", "l", "u", "e", "n", "c", "e", "r">>,
     <<"c", "o", "a", "c", "h", "i", "n", "g">> >>

\* find_trending_keywords once analyze_github_trends has returned gt
find_trending_keywords(gt) ==
  LET all_trends == gt \o tech_trends \o business_trends
      scored_trends == [i \in 1..Len(all_trends) |-> TrendRecord(all_trends[i])]
  IN  Take(SortedDesc([i \in 1..Len(scored_trends) |-> <<scored_trends[i].score, scored_trends[i]>>]), 20)

(***************************************************************************)
(* DomainGenerator: generate_domain_ideas                                  *)
(***************************************************************************)

\* the list `variations` for one keyword
variations(keyword) ==
  << keyword \o dot_com,
     keyword \o dot_ai,
     keyword \o dot_io,
     <<"g", "e", "t">> \o keyword \o dot_com,
     <<"u", "s", "e">> \o keyword \o dot_com,
     keyword \o <<"a", "p", "p">> \o dot_com,
     keyword \o <<"t", "o", "o", "l">> \o dot_com,
     keyword \o <<"p", "r", "o">> \o dot_com >>

\* the list `combo_domains` for one pair of trends
combo_domains(trend1, trend2) ==
  << trend1.keyword \o trend2.keyword \o dot_com,
     trend1.keyword \o <<"-">> \o trend2.keyword \o dot_com >>

\* `for trend in trending_keywords[:10]: domain_ideas.extend(variations)`
single_keyword_domains(tk) ==
  LET top == Take(tk, 10)
  IN  Flatten([i \in 1..Len(top) |-> variations(top[i].keyword)])

\* the inner loop `for trend2 in trending_keywords[i+1:8]`, i counted from 0 as enumerate does
combination_row(tk, i) ==
  LET partners == Drop(Take(tk, 8), i + 1)
  IN  Flatten([j \in 1..Len(partners) |-> combo_domains(tk[i + 1], partners[j])])

\* `for i, trend1 in enumerate(trending_keywords[:5])`
combination_domains(tk) ==
  LET top == Take(tk, 5)
  IN  Flatten([n \in 1..Len(top) |-> combination_row(tk, n - 1)])

\* Mutant: the inner slice is [i+1:i+4], the three keywords after trend1.
generate_domain_ideas_next_three(tk) ==
  LET top == Take(tk, 5)
      row(i) == LET partners == Drop(Take(tk, Min(8, i + 4)), i + 1)
                IN  Flatten([j \in 1..Len(partners) |->
                               combo_domains(tk[i + 1], partners[j])])
  IN  single_keyword_domains(tk) \o Flatten([n \in 1..Len(top) |-> row(n - 1)])

generate_domain_ideas(tk) == single_keyword_domains(tk) \o combination_domains(tk)

(***************************************************************************)
(* Valuator and filter: evaluate_domains                                   *)
(***************************************************************************)

\* the dict `evaluation` built for one domain
Evaluation(d) ==
  [domain |-> d,
   estimated_value |-> estimate_domain_value(d),
   registration_cost |-> "$12-15",
   profit_potential |-> calculate_profit_potential(d),
   time_to_sell |-> estimate_sell_time(d),
   marketing_strategy |-> create_domain_marketing(d)]

RECURSIVE SelectValuable(_)
\* `if evaluation['profit_potential'] > 500: valuable_domains.append(evaluation)`
SelectValuable(es) ==
  IF es = <<>> THEN <<>>
  ELSE IF Head(es).profit_potential > 500 * 100
       THEN <<Head(es)>> \o SelectValuable(Tail(es))
       ELSE SelectValuable(Tail(es))

\* Mutant: the loop runs over all of domain_ideas.
domains_evaluated_all(di) == di

\* the domains the loop `for domain in domain_ideas[:50]` evaluates
domains_evaluated(di) == Take(di, 50)

\* Mutant: the filter keeps profit_potential > 100.
evaluate_domains_low_threshold(di) ==
  LET all == [i \in 1..Len(domains_evaluated(di)) |-> Evaluation(domains_evaluated(di)[i])]
      kept == SelectSeq(all, LAMBDA e : e.profit_potential > 100 * 100)
  IN  SortedDesc([i \in 1..Len(kept) |-> <<kept[i].profit_potential, kept[i]>>])

evaluate_domains(di) ==
  LET all == [i \in 1..Len(domains_evaluated(di)) |-> Evaluation(domains_evaluated(di)[i])]
      valuable == SelectValuable(all)
  IN  SortedDesc([i \in 1..Len(valuable) |-> <<valuable[i].profit_potential, valuable[i]>>])

(***************************************************************************)
(* PortfolioBuilder: create_flipping_strategy                              *)
(***************************************************************************)

RECURSIVE SumProfit(_)
\* sum(d['profit_potential'] for d in ds)
SumProfit(ds) == IF ds = <<>> THEN 0 ELSE Head(ds).profit_potential + SumProfit(Tail(ds))

portfolio_management ==
  [acquisition_budget |-> "$300/month",
   renewal_strategy |-> "Renew high-value domains only",
   selling_timeline |-> "6-12 months average hold time",
   profit_reinvestment |-> "50% reinvested in new domains"]

scaling_plan ==
  [month_1_3 |-> "Acquire and test initial portfolio",
   month_4_6 |-> "Scale successful domain types",
   month_7_12 |-> "Focus on premium domain acquisitions",
   year_2 |-> "Expand to expired domain auctions"]

\* Mutant: the aggregates are taken over the whole list, not over its first 20 entries.
strategy_dict_unsliced(vd) ==
  [portfolio |-> Take(vd, 20),
   total_investment |-> Len(vd) * 15,
   projected_profit |-> SumProfit(vd),
   roi_percentage |-> [num |-> SumProfit(vd), den |-> Len(vd) * 15],
   portfolio_management |-> portfolio_management,
   scaling_plan |-> scaling_plan]

\* the dict literal `strategy`; roi_percentage is (sum / (len * 15)) * 100 with the sum in
\* hundredths, that is the fraction num / den below, undefined when den = 0
strategy_dict(vd) ==
  [portfolio |-> Take(vd, 20),
   total_investment |-> Len(Take(vd, 20)) * 15,
   projected_profit |-> SumProfit(Take(vd, 20)),
   roi_percentage |-> [num |-> SumProfit(Take(vd, 20)), den |-> Len(Take(vd, 20)) * 15],
   portfolio_management |-> portfolio_management,
   scaling_plan |-> scaling_plan]

\* the outcome of a call: the returned dict, or the exception the division raises
create_flipping_strategy(vd) ==
  IF strategy_dict(vd).roi_percentage.den = 0
  THEN [fault |-> "ZeroDivisionError", strategy |-> NoStrategy]
  ELSE [fault |-> NoFault, strategy |-> strategy_dict(vd)]

(***************************************************************************)
(* Inputs.  Strings are put together from tokens that hit every branch of  *)
(* the scoring functions: the three TLDs and none, labels of 6/7 and       *)
(* 10/11 characters, each valuable keyword, dots inside the label, a label *)
(* holding all six keywords.                                               *)
(***************************************************************************)

MaxTokens == 2

RECURSIVE TokenStrings(_, _)
\* the concatenations of at most n tokens
TokenStrings(tokens, n) ==
  IF n = 0 THEN { <<>> }
  ELSE LET shorter == TokenStrings(tokens, n - 1)
       IN  shorter \cup { s \o t : s \in shorter, t \in tokens }

\* all lists of at most n members of S
ListsUpTo(S, n) == UNION { [1..k -> S] : k \in 0..n }

\* the list of n copies of x
Repeat(x, n) == [i \in 1..n |-> x]

all_keywords_label ==
  <<"u", "s", "e", "g", "e", "t", "o", "o", "l", "a", "p", "p", "r", "o", "a", "i">>

LabelTokens ==
  { <<"a", "i">>, <<"a", "p", "p">>, <<"t", "o", "o", "l">>, <<"p", "r", "o">>,
    <<"g", "e", "t">>, <<"u", "s", "e">>, <<"x">>, <<".">>,
    <<"v", "w", "x", "y", "z">>, <<"u", "v", "w", "x", "y", "z">>, all_keywords_label }

TldInputs == { <<>>, dot_com, dot_ai, dot_io, <<".", "n", "e", "t">>, <<".", "c", "o", "m", "x">> }

DomainInputs == { l \o t : l \in TokenStrings(LabelTokens, MaxTokens), t \in TldInputs }

ai_com == <<"a", "i">> \o dot_com

getapp_com == <<"g", "e", "t", "a", "p", "p">> \o dot_com

OtherInputs ==
  { <<>>, ai_com, <<"x">> \o dot_io, getapp_com,
    <<"u", "v", "w", "x", "y", "z", "x">> \o dot_ai, all_keywords_label \o dot_com }

TrendTokens ==
  { <<"a", "i">>, <<"a", "p", "p">>, <<"s", "a", "a", "s">>,
    <<"a", "u", "t", "o", "m", "a", "t", "i", "o", "n">>,
    <<"i", "n", "c", "o", "m", "e">>, <<"m", "o", "n", "e", "y">>,
    <<"p", "r", "o", "f", "i", "t">>, <<"b", "u", "s", "i", "n", "e", "s", "s">>,
    <<"c", "r", "y", "p", "t", "o">>, <<"t", "o", "o", "l">>, <<"p", "r", "o">>,
    <<"x">>, <<"-">>, <<"w", "e", "b">> }

TrendInputs == TokenStrings(TrendTokens, MaxTokens)

saas == <<"s", "a", "a", "s">>

tool == <<"t", "o", "o", "l">>

\* keyword lists handed to generate_domain_ideas: long enough to pass the cuts at 5, 8 and 10
MaxKeywords == 11

KeywordLists == ListsUpTo({TrendRecord(saas), TrendRecord(tool)}, MaxKeywords)

\* candidate lists handed to evaluate_domains
MaxCandidates == 3

CandidateInputs ==
  { ai_com, getapp_com, all_keywords_label \o dot_com, <<"x">> \o dot_io,
    <<"u", "v", "w", "x", "y", "z", "x">> }

CandidateLists == ListsUpTo(CandidateInputs, MaxCandidates)

\* evaluation lists handed to create_flipping_strategy: k copies of one evaluation
\* followed by copies of another, long enough to pass the cut at 20
MaxEvaluations == 21

EvaluationInputs == { Evaluation(ai_com), Evaluation(getapp_com), Evaluation(<<"x">> \o dot_io) }

EvaluationLists ==
  UNION { { Repeat(a, k) \o Repeat(b, n - k) : k \in 0..n, a \in EvaluationInputs,
                                               b \in EvaluationInputs } :
          n \in 0..MaxEvaluations }

\* repository records as the search API returns them (each has a name; the
\* description may be missing or null)
repo_ai_tool ==
  [name |-> <<"A", "I", "-", "T", "o", "o", "l">>, description |-> KeyAbsent]

repo_saas == [name |-> saas, description |-> JsonNull]

repo_apps_kit ==
  [name |-> <<"a", "p", "p", "s", "-", "k", "i", "t", "3">>,
   description |-> tool \o <<" ">> \o tool \o <<" ", " ">> \o <<"S", "a", "a", "S">>
                   \o <<" ">> \o tool \o <<" ">> \o <<"n", "o", "n", "e", " ">>
                   \o <<"m", "o", "n", "e", "y">>]

BodyInputs ==
  { [message |-> "API rate limit exceeded"],
    [items |-> <<repo_ai_tool>>],
    [items |-> <<repo_saas, repo_apps_kit>>],
    [items |-> Repeat(repo_ai_tool, 10) \o <<repo_apps_kit>>] }

StatusInputs == {200, 403}

ResponseInputs == [status_code : StatusInputs, json : BodyInputs]

(***************************************************************************)
(* The run as a state machine                                              *)
(***************************************************************************)

Idle ==
  /\ requests = <<>> /\ responses = <<>> /\ trends = <<>> /\ github_trends = <<>>
  /\ trending_keywords = <<>> /\ domain_ideas = <<>> /\ evaluated = <<>>
  /\ valuable_domains = <<>> /\ strategy = NoStrategy /\ fault = NoFault

NoScoring ==
  /\ domain = <<>> /\ other = <<>> /\ estimated_value = NoValues
  /\ profit_potential = NoValues

NoTrend == trend = <<>> /\ trend_record = NoValue

runVars == <<requests, responses, trends, github_trends, trending_keywords, domain_ideas,
             evaluated, valuable_domains, strategy, fault>>

scoringVars == <<domain, other, estimated_value, profit_potential>>

trendVars == <<trend, trend_record>>

\* one iteration of the loop of analyze_github_trends: search_repos is called with the
\* next query, requests.get returns a response, and the keywords of the first ten
\* repositories are added to `trends`
SearchRepos ==
  /\ pc = "analyze"
  /\ Len(requests) < Len(search_queries)
  /\ \E response \in ResponseInputs :
       LET repos == search_repos(response)
       IN  /\ requests' = Append(requests, search_queries[Len(requests) + 1])
           /\ responses' = Append(responses,
                                  [status_code |-> response.status_code,
                                   json |-> response.json,
                                   repos |-> repos])
           /\ trends' = trends \o repo_keywords(repos)
  /\ UNCHANGED <<pc, github_trends, trending_keywords, domain_ideas, evaluated,
                 valuable_domains, strategy, fault, scoringVars, trendVars>>

\* requests.get raises instead of returning (no connection, ...): nothing catches it
SearchReposRaises ==
  /\ pc = "analyze"
  /\ Len(requests) < Len(search_queries)
  /\ requests' = Append(requests, search_queries[Len(requests) + 1])
  /\ fault' = "RequestException"
  /\ pc' = "fault"
  /\ UNCHANGED <<responses, trends, github_trends, trending_keywords, domain_ideas,
                 evaluated, valuable_domains, strategy, scoringVars, trendVars>>

\* the loop is over: `return list(set(trends))`
AnalyzeGithubTrends ==
  /\ pc = "analyze"
  /\ Len(requests) = Len(search_queries)
  /\ github_trends' \in ListsOfSet(SetOf(trends))
  /\ pc' = "score"
  /\ UNCHANGED <<requests, responses, trends, trending_keywords, domain_ideas, evaluated,
                 valuable_domains, strategy, fault, scoringVars, trendVars>>

\* the rest of find_trending_keywords: score, sort, keep 20
FindTrendingKeywords ==
  /\ pc = "score"
  /\ trending_keywords' = find_trending_keywords(github_trends)
  /\ pc' = "generate"
  /\ UNCHANGED <<requests, responses, trends, github_trends, domain_ideas, evaluated,
                 valuable_domains, strategy, fault, scoringVars, trendVars>>

GenerateDomainIdeas ==
  /\ pc = "generate"
  /\ domain_ideas' = generate_domain_ideas(trending_keywords)
  /\ pc' = "evaluate"
  /\ UNCHANGED <<requests, responses, trends, github_trends, trending_keywords, evaluated,
                 valuable_domains, strategy, fault, scoringVars, trendVars>>

EvaluateDomains ==
  /\ pc = "evaluate"
  /\ evaluated' = domains_evaluated(domain_ideas)
  /\ valuable_domains' = evaluate_domains(domain_ideas)
  /\ pc' = "create"
  /\ UNCHANGED <<requests, responses, trends, github_trends, trending_keywords,
                 domain_ideas, strategy, fault, scoringVars, trendVars>>

\* the call returns its dict (and operate_domain_flipping returns it), or raises
CreateFlippingStrategy ==
  /\ pc = "create"
  /\ strategy' = create_flipping_strategy(valuable_domains).strategy
  /\ fault' = create_flipping_strategy(valuable_domains).fault
  /\ pc' = IF create_flipping_strategy(valuable_domains).fault = NoFault
           THEN "done" ELSE "fault"
  /\ UNCHANGED <<requests, responses, trends, github_trends, trending_keywords,
                 domain_ideas, evaluated, valuable_domains, scoringVars, trendVars>>

\* a call of estimate_domain_value on each of the two arguments
EstimateDomainValue ==
  /\ pc = "estimate"
  /\ estimated_value' = [d \in {domain, other} |-> estimate_domain_value(d)]
  /\ pc' = "profit"
  /\ UNCHANGED <<runVars, trendVars, domain, other, profit_potential>>

\* a call of calculate_profit_potential on each of the two arguments
CalculateProfitPotential ==
  /\ pc = "profit"
  /\ profit_potential' = [d \in {domain, other} |-> calculate_profit_potential(d)]
  /\ pc' = "scored"
  /\ UNCHANGED <<runVars, trendVars, domain, other, estimated_value>>

\* one iteration of the scoring loop of find_trending_keywords
ScoreTrend ==
  /\ pc = "trend"
  /\ trend_record' = TrendRecord(trend)
  /\ pc' = "recorded"
  /\ UNCHANGED <<runVars, scoringVars, trend>>

\* operate_domain_flipping
Init == pc = "analyze" /\ Idle /\ NoScoring /\ NoTrend

Next ==
  \/ SearchRepos
  \/ SearchReposRaises
  \/ AnalyzeGithubTrends
  \/ FindTrendingKeywords
  \/ GenerateDomainIdeas
  \/ EvaluateDomains
  \/ CreateFlippingStrategy

Spec == Init /\ [][Next]_vars

\* estimate_domain_value and calculate_profit_potential on two domain strings
InitValuator ==
  /\ pc = "estimate"
  /\ domain \in DomainInputs
  /\ other \in OtherInputs
  /\ estimated_value = NoValues /\ profit_potential = NoValues
  /\ Idle /\ NoTrend

NextValuator == EstimateDomainValue \/ CalculateProfitPotential

SpecValuator == InitValuator /\ [][NextValuator]_vars

\* calculate_trend_potential and estimate_commercial_value on one keyword
InitTrend ==
  /\ pc = "trend"
  /\ trend \in TrendInputs
  /\ trend_record = NoValue
  /\ Idle /\ NoScoring

NextTrend == ScoreTrend

SpecTrend == InitTrend /\ [][NextTrend]_vars

\* generate_domain_ideas, then evaluate_domains, on a keyword list
InitGenerator ==
  /\ pc = "generate"
  /\ trending_keywords \in KeywordLists
  /\ requests = <<>> /\ responses = <<>> /\ trends = <<>> /\ github_trends = <<>>
  /\ domain_ideas = <<>> /\ evaluated = <<>>
  /\ valuable_domains = <<>> /\ strategy = NoStrategy /\ fault = NoFault
  /\ NoScoring /\ NoTrend

NextGenerator == GenerateDomainIdeas \/ EvaluateDomains

SpecGenerator == InitGenerator /\ [][NextGenerator]_vars

\* evaluate_domains, then create_flipping_strategy, on a candidate list
InitEvaluate ==
  /\ pc = "evaluate"
  /\ domain_ideas \in CandidateLists
  /\ requests = <<>> /\ responses = <<>> /\ trends = <<>> /\ github_trends = <<>>
  /\ trending_keywords = <<>> /\ evaluated = <<>>
  /\ valuable_domains = <<>> /\ strategy = NoStrategy /\ fault = NoFault
  /\ NoScoring /\ NoTrend

NextEvaluate == EvaluateDomains \/ CreateFlippingStrategy

SpecEvaluate == InitEvaluate /\ [][NextEvaluate]_vars

\* create_flipping_strategy on a list of evaluations
InitBuilder ==
  /\ pc = "create"
  /\ valuable_domains \in EvaluationLists
  /\ requests = <<>> /\ responses = <<>> /\ trends = <<>> /\ github_trends = <<>>
  /\ trending_keywords = <<>> /\ domain_ideas = <<>> /\ evaluated = <<>>
  /\ strategy = NoStrategy /\ fault = NoFault
  /\ NoScoring /\ NoTrend

NextBuilder == CreateFlippingStrategy

SpecBuilder == InitBuilder /\ [][NextBuilder]_vars

\* operate_domain_flipping together with calls of the two scoring functions on
\* arbitrary domain strings
InitRunAndValuator == Init \/ InitValuator

NextRunAndValuator == Next \/ NextValuator

SpecRunAndValuator == InitRunAndValuator /\ [][NextRunAndValuator]_vars

(***************************************************************************)
(* Properties                                                              *)
(***************************************************************************)

\* create_flipping_strategy has been called and has returned or raised
Created == pc \in {"done", "fault"} /\ fault # "RequestException"

RECURSIVE ProfitOfFirst(_, _)
\* the sum of profit_potential over entries 1..n of s
ProfitOfFirst(s, n) ==
  IF n = 0 THEN 0 ELSE s[n].profit_potential + ProfitOfFirst(s, n - 1)

\* C1: given an empty list, create_flipping_strategy returns an empty-portfolio
\* result (portfolio empty, total_investment 0) and does not fault.
C1_EmptyPortfolioResult ==
  (Created /\ valuable_domains = <<>>) =>
    /\ fault = NoFault
    /\ strategy # NoStrategy
    /\ strategy.portfolio = <<>>
    /\ strategy.total_investment = 0

\* C2: for every candidate list, evaluate_domains followed by
\* create_flipping_strategy yields a portfolio of at most 20 entries, in
\* non-increasing order of profit_potential, each above 500.
C2_PortfolioObtained ==
  (Created /\ evaluated = Take(domain_ideas, 50)) =>
    /\ strategy # NoStrategy
    /\ Len(strategy.portfolio) <= 20
    /\ \A i \in 1..(Len(strategy.portfolio) - 1) :
         strategy.portfolio[i].profit_potential >= strategy.portfolio[i + 1].profit_potential
    /\ \A i \in 1..Len(strategy.portfolio) :
         strategy.portfolio[i].profit_potential > 500 * 100

\* C3: for a non-empty list, with P its first min(20, length) entries, the call
\* returns total_investment = |P| * 15, projected_profit = the sum over P, and
\* roi_percentage = projected_profit / total_investment * 100 (as fractions: the
\* sum is held in hundredths, so roi = num / den = projected_profit / total_investment);
\* entries past the 20th count in none of them.
C3_Aggregates ==
  (Created /\ valuable_domains # <<>>) =>
    LET n == IF Len(valuable_domains) < 20 THEN Len(valuable_domains) ELSE 20
    IN  /\ pc = "done" /\ fault = NoFault
        /\ strategy.portfolio = [i \in 1..n |-> valuable_domains[i]]
        /\ strategy.total_investment = n * 15
        /\ strategy.projected_profit = ProfitOfFirst(valuable_domains, n)
        /\ strategy.roi_percentage.den # 0
        /\ strategy.roi_percentage.num * strategy.total_investment
             = strategy.projected_profit * strategy.roi_percentage.den

C3_Witness ==
  /\ pc = "done"
  /\ Len(valuable_domains) = 21
  /\ valuable_domains[21].profit_potential > valuable_domains[1].profit_potential
  /\ strategy.total_investment = 300
  /\ strategy.projected_profit = 20 * valuable_domains[1].profit_potential

\* the label of a domain: its longest dot-free prefix
LabelOf(d) ==
  LET free == {n \in 0..Len(d) : \A i \in 1..n : d[i] # "."}
  IN  SubSeq(d, 1, CHOOSE n \in free : \A m \in free : m <= n)

SixKeywords ==
  { <<"a", "i">>, <<"a", "p", "p">>, <<"t", "o", "o", "l">>, <<"p", "r", "o">>,
    <<"g", "e", "t">>, <<"u", "s", "e">> }

ExpectedValue(d) ==
  100
  + (IF EndsWith(d, dot_com) THEN 200
     ELSE IF EndsWith(d, dot_ai) THEN 150
     ELSE IF EndsWith(d, dot_io) THEN 100 ELSE 0)
  + (IF Len(LabelOf(d)) <= 6 THEN 300 ELSE IF Len(LabelOf(d)) <= 10 THEN 100 ELSE 0)
  + 200 * Cardinality({k \in SixKeywords : Contains(LabelOf(d), k)})

\* C4: estimate_domain_value is 100 + one TLD bonus + one length bonus on the
\* label + 200 per keyword found in the label; a .com domain is worth at least
\* 300, "ai.com" is worth 800, and a second call gives the same value.
C4_EstimatedValue ==
  (pc \in {"profit", "scored"}) =>
    \A d \in {domain, other} :
      /\ estimated_value[d] = ExpectedValue(d)
      /\ EndsWith(d, dot_com) => estimated_value[d] >= 300
      /\ d = ai_com => estimated_value[d] = 800
      /\ estimate_domain_value(d) = estimated_value[d]

C4_Witness ==
  /\ pc = "scored"
  /\ domain = getapp_com /\ estimated_value[domain] = 1000
  /\ other = ai_com /\ estimated_value[other] = 800

\* max(0, 15 * min(v / 100, 50) - 15), in hundredths
ExpectedProfit(v) ==
  LET raw == 15 * (IF v <= 5000 THEN v ELSE 5000) - 1500
  IN  IF raw < 0 THEN 0 ELSE raw

\* C5: calculate_profit_potential is max(0, 15 * min(estimated_value / 100, 50) - 15),
\* never negative, and non-decreasing in the estimated value: of two domains, the
\* one with the smaller or equal estimated value has the smaller or equal profit.
C5_ProfitMonotone ==
  (pc = "scored") =>
    \A d1 \in {domain, other} :
      /\ profit_potential[d1] >= 0
      /\ profit_potential[d1] = ExpectedProfit(estimated_value[d1])
      /\ \A d2 \in {domain, other} :
           estimated_value[d1] <= estimated_value[d2]
             => profit_potential[d1] <= profit_potential[d2]

C5_Witness ==
  /\ pc = "scored"
  /\ estimated_value[domain] = 100 /\ profit_potential[domain] = 0
  /\ estimated_value[other] = 1500 /\ profit_potential[other] = 210 * 100

TechTerms ==
  { <<"a", "i">>, <<"a", "u", "t", "o", "m", "a", "t", "i", "o", "n">>,
    <<"s", "a", "a", "s">>, <<"a", "p", "p">> }

BusinessTerms ==
  { <<"i", "n", "c", "o", "m", "e">>, <<"m", "o", "n", "e", "y">>,
    <<"p", "r", "o", "f", "i", "t">>, <<"b", "u", "s", "i", "n", "e", "s", "s">> }

HighTerms ==
  { <<"a", "i">>, <<"c", "r", "y", "p", "t", "o">>, <<"s", "a", "a", "s">>, <<"a", "p", "p">> }

MediumTerms ==
  { <<"t", "o", "o", "l">>, <<"p", "r", "o">>, <<"b", "u", "s", "i", "n", "e", "s", "s">> }

ExpectedScore(k) ==
  LET sum == 50 + (IF \E t \in TechTerms : Contains(k, t) THEN 30 ELSE 0)
                + (IF \E t \in BusinessTerms : Contains(k, t) THEN 25 ELSE 0)
                + (IF Len(k) <= 8 THEN 20 ELSE 0)
  IN  IF sum > 100 THEN 100 ELSE sum

KeywordAt(p) == ((p - 1) \div 8) + 1

VariantAt(p) == ((p - 1) % 8) + 1

\* the v-th single-keyword variant of a keyword
SingleVariant(k, v) ==
  CASE v = 1 -> k \o <<".", "c", "o", "m">>
    [] v = 2 -> k \o <<".", "a", "i">>
    [] v = 3 -> k \o <<".", "i", "o">>
    [] v = 4 -> <<"g", "e", "t">> \o k \o <<".", "c", "o", "m">>
    [] v = 5 -> <<"u", "s", "e">> \o k \o <<".", "c", "o", "m">>
    [] v = 6 -> k \o <<"a", "p", "p", ".", "c", "o", "m">>
    [] v = 7 -> k \o <<"t", "o", "o", "l", ".", "c", "o", "m">>
    [] v = 8 -> k \o <<"p", "r", "o", ".", "c", "o", "m">>

\* the candidate list for keyword list tk when keyword i (counted from 0) is
\* paired with the keywords j of Partners[i]
ExpectedIdeas(tk, Partners) ==
  LET n == Len(tk)
      m == IF n < 10 THEN n ELSE 10
      pairs == {<<i, j>> \in (0..4) \X (0..7) : i < n /\ j < n /\ j \in Partners[i]}
      rank(p) == Cardinality({q \in pairs : q[1] < p[1] \/ (q[1] = p[1] /\ q[2] < p[2])}) + 1
      pair(r) == CHOOSE p \in pairs : rank(p) = r
      combo(c) == LET p == pair(((c + 1) \div 2))
                      a == tk[p[1] + 1].keyword
                      b == tk[p[2] + 1].keyword
                  IN  IF c % 2 = 1 THEN a \o b \o <<".", "c", "o", "m">>
                      ELSE a \o <<"-">> \o b \o <<".", "c", "o", "m">>
  IN  [p \in 1..(8 * m) |-> SingleVariant(tk[KeywordAt(p)].keyword, VariantAt(p))]
      \o [c \in 1..(2 * Cardinality(pairs)) |-> combo(c)]

NextThree == [i \in 0..4 |-> (i + 1)..(IF i + 3 < 7 THEN i + 3 ELSE 7)]

AllLater == [i \in 0..4 |-> (i + 1)..7]

Analyzed == pc \in {"score", "generate", "evaluate", "create", "done"}
            \/ (pc = "fault" /\ fault # "RequestException")

\* the run has left find_trending_keywords by its return
Scored == Analyzed /\ pc # "score"

StaticTop20 ==
  << <<"s", "a", "a", "s">>,
     <<"a", "i", "-", "a", "g", "e", "n", "t", "s">>,
     <<"a", "u", "t", "o", "m", "a", "t", "i", "o", "n">>,
     <<"b", "l", "o", "c", "k", "c", "h", "a", "i", "n">>,
     <<"s", "u", "s", "t", "a", "i", "n", "a", "b", "i", "l", "i", "t", "y">>,
     <<"p", "a", "s", "s", "i", "v", "e", "-", "i", "n", "c", "o", "m", "e">>,
     <<"n", "o", "c", "o", "d", "e">>,
     <<"d", "e", "f", "i">>,
     <<"n", "f", "t">>,
     <<"c", "r", "y", "p", "t", "o">>,
     <<"w", "e", "b", "3">>,
     <<"c", "o", "a", "c", "h", "i", "n", "g">>,
     <<"s", "e", "r", "v", "e", "r", "l", "e", "s", "s">>,
     <<"m", "e", "t", "a", "v", "e", "r", "s", "e">>,
     <<"p", "r", "o", "d", "u", "c", "t", "i", "v", "i", "t", "y">>,
     <<"r", "e", "m", "o", "t", "e", "-", "w", "o", "r", "k">>,
     <<"d", "i", "g", "i", "t", "a", "l", "-", "n", "o", "m", "a", "d">>,
     <<"s", "i", "d", "e", "-", "h", "u", "s", "t", "l", "e">>,
     <<"e", "c", "o", "m", "m", "e", "r", "c", "e">>,
     <<"d", "r", "o", "p", "s", "h", "i", "p", "p", "i", "n", "g">> >>

\* C8: the requests sent are the three fixed queries, each once, in list order,
\* whatever the statuses; a response whose status is not 200 gives an empty
\* result list and no fault, and the run goes on to score the static trends (with
\* three such responses, exactly the 20 best static trends are returned).
C8_OneRequestPerQuery ==
  /\ Len(requests) <= Len(search_queries)
  /\ \A i \in 1..Len(requests) : requests[i] = search_queries[i]
  /\ Analyzed => requests = search_queries /\ Len(responses) = 3
  /\ \A i \in 1..Len(responses) :
       responses[i].status_code # 200 => responses[i].repos = <<>>
  /\ (\A i \in 1..Len(responses) : responses[i].status_code # 200) =>
       /\ trends = <<>>
       /\ fault # "RequestException" => Len(responses) = Len(requests)
       /\ pc = "analyze" => fault = NoFault /\ ENABLED (SearchRepos \/ AnalyzeGithubTrends)
       /\ Analyzed => github_trends = <<>>
       /\ Scored => [i \in 1..Len(trending_keywords) |-> trending_keywords[i].keyword]
                      = StaticTop20

C8_Witness ==
  /\ pc = "generate"
  /\ Len(responses) = 3
  /\ \A i \in 1..3 : responses[i].status_code = 403
  /\ \E i \in 1..3 : "items" \in DOMAIN responses[i].json
  /\ Len(trending_keywords) = 20

\* how far a run has come
PcRank(p) ==
  CASE p = "analyze" -> 1
    [] p = "score" -> 2
    [] p = "generate" -> 3
    [] p = "evaluate" -> 4
    [] p = "create" -> 5
    [] p \in {"done", "fault"} -> 6
    [] OTHER -> 0

\* a step of a run moves it on: to a later stage, or to the next request
RunAdvances ==
  \/ PcRank(pc) = 0
  \/ PcRank(pc') > PcRank(pc)
  \/ pc = "analyze" /\ pc' = "analyze" /\ Len(requests') = Len(requests) + 1

\* what holds of every state of a run and of every call of the scoring functions
NoStrategyEver ==
  /\ (pc \in {"profit", "scored"}) =>
       \A d \in {domain, other} : estimated_value[d] <= 1800
  /\ (pc = "scored") =>
       \A d \in {domain, other} : profit_potential[d] <= 255 * 100
  /\ strategy = NoStrategy /\ pc # "done"
  /\ (pc \in {"create", "fault"} /\ fault # "RequestException") =>
       /\ evaluated = Take(domain_ideas, 50)
       /\ \A i \in 1..Len(evaluated) :
            /\ estimate_domain_value(evaluated[i]) <= 1800
            /\ calculate_profit_potential(evaluated[i]) <= 255 * 100
       /\ valuable_domains = <<>>
  /\ (pc = "fault") =>
       \/ fault = "RequestException" /\ Len(responses) < Len(requests)
       \/ fault = "ZeroDivisionError" /\ Len(responses) = 3 /\ valuable_domains = <<>>
  /\ (pc = "analyze") => Len(requests) <= Len(search_queries)

\* C9: every estimated value is at most 1800 and every profit potential at most
\* 255, below the 500 threshold; evaluate_domains returns the empty list; no run
\* returns a strategy; a run stops only in a fault, which is the division by zero
\* of create_flipping_strategy, called with the empty list, whenever all three
\* requests returned; and every step takes the run closer to that end (before the
\* fault a step is always possible: at "analyze" the next request or the return,
\* at every later stage the call of that stage).
C9_AlwaysFaults == []NoStrategyEver /\ [][RunAdvances]_vars

C9_Witness ==
  /\ pc = "fault"
  /\ fault = "ZeroDivisionError"
  /\ \A i \in 1..3 : responses[i].status_code = 200
  /\ github_trends # <<>>
  /\ Len(evaluated) = 50
  /\ valuable_domains = <<>>

\* C10: find_trending_keywords returns exactly 20 records in non-increasing score
\* order; generate_domain_ideas then gives 130 candidates; evaluate_domains
\* evaluates the first 50 of them and no other: the 8 variants of each of the top
\* 6 keywords and the first 2 variants of the 7th, so none of the candidates at
\* the combination positions and none of the variants of the keywords ranked 8th
\* or lower.
C10_OnlyFirstFifty ==
  /\ Scored =>
       /\ Len(trending_keywords) = 20
       /\ \A i \in 1..19 : trending_keywords[i].score >= trending_keywords[i + 1].score
  /\ (Scored /\ pc # "generate") => Len(domain_ideas) = 130
  /\ (Scored /\ pc \notin {"generate", "evaluate"}) =>
       /\ Len(evaluated) = 50
       /\ \A p \in 1..Len(evaluated) :
            /\ evaluated[p] = domain_ideas[p]
            /\ KeywordAt(p) <= 7
            /\ KeywordAt(p) = 7 => VariantAt(p) <= 2
            /\ evaluated[p] =
                 SingleVariant(trending_keywords[KeywordAt(p)].keyword, VariantAt(p))

C10_Witness ==
  /\ pc = "fault" /\ fault = "ZeroDivisionError"
  /\ github_trends # <<>>
  /\ trending_keywords[1].keyword = <<"a", "p", "p", "s">>
  /\ Len(domain_ideas) = 130
  /\ evaluated[50] = trending_keywords[7].keyword \o dot_ai

====
